---- MODULE Spec2Model ----
(***************************************************************************)
(* The object model of the version-control engine in modules/cvs_objects.py *)
(* (Blob, Tree, Commit, TreeObjectData), its hashing and its pickle        *)
(* serialization, and the directory materializer                           *)
(* Tree.initialize_from_directory.                                         *)
(*                                                                         *)
(* Representation.                                                         *)
(*  - A byte string is a sequence of chunks.  A chunk is a literal         *)
(*    [lit |-> s], a 20-byte digest [sha1 |-> preimage], or one pickle     *)
(*    opcode [op |-> ...].  b1 + b2 is b1 \o b2.                           *)
(*  - hashlib.sha1 is modelled as injective: the digest of a byte string   *)
(*    is the one chunk [sha1 |-> that byte string].                        *)
(*  - A Python str or bytes object is [id, v]: v its value (a str is a     *)
(*    sequence of path tokens, a bytes a byte string) and id its identity, *)
(*    which pickle's memo keys on.  id <<>> marks an object that nothing   *)
(*    else refers to (a fresh digest, a fresh os.path.join result); id     *)
(*    <<0>> marks the interned str of its value (sys.intern: an attribute  *)
(*    name, a class name, an identifier-like literal of the caller).       *)
(*  - A Tree is [children, is_removed]; children, a dict, is the sequence  *)
(*    of its items [key, value] in insertion order.                        *)
(*  - A Commit is [tree, parent_commit_hash, message]; tree is a reference *)
(*    into a heap of Trees (Commits share the Tree they reference).        *)
(***************************************************************************)
EXTENDS Naturals, Sequences, FiniteSets, TLC

VARIABLES blobs, trees, commits, log, derived, loaded,
          fs, stack, outcome, failed

vars == <<blobs, trees, commits, log, derived, loaded, fs, stack, outcome, failed>>

-----------------------------------------------------------------------------
(* Bytes, digests, Python objects *)

Lit(s) == <<[lit |-> s]>>

sha1(data) == <<[sha1 |-> data]>>

Fresh == <<>>

\* The interned str of value v: one object per value.
Interned(v) == [id |-> <<0>>, v |-> v]

PyObj(id, v) == [id |-> id, v |-> v]

TreeObjectData(path, object_type, is_removed) ==
    [path |-> path, object_type |-> object_type, is_removed |-> is_removed]

\* dataclass(eq=True): field-wise comparison; str compares by value, the
\* class object_type by identity.
TreeObjectData_eq(a, b) ==
    /\ a.path.v = b.path.v
    /\ a.object_type = b.object_type
    /\ a.is_removed = b.is_removed

\* The position of the item whose key equals data, 0 when there is none.
DictFind(items, data) ==
    IF \E i \in 1..Len(items) : TreeObjectData_eq(items[i].key, data)
    THEN CHOOSE i \in 1..Len(items) : TreeObjectData_eq(items[i].key, data)
    ELSE 0

\* A variant of d[data] = value that C7 rules out: the key is deleted and
\* inserted again, so that a key set again goes last.
DictSetItem_reinserted(items, data, value) ==
    Append(SelectSeq(items, LAMBDA x : ~TreeObjectData_eq(x.key, data)),
           [key |-> data, value |-> value])

\* d[data] = value on an insertion-ordered dict: an existing key keeps its
\* place (and its key object) and takes the new value; a new key goes last.
DictSetItem(items, data, value) ==
    LET i == DictFind(items, data) IN
    IF i = 0 THEN Append(items, [key |-> data, value |-> value])
    ELSE [items EXCEPT ![i] = [key |-> items[i].key, value |-> value]]

\* dict == dict: the same keys with equal values, whatever the order.
DictEq(a, b) ==
    /\ Len(a) = Len(b)
    /\ \A i \in 1..Len(a) :
          LET j == DictFind(b, a[i].key) IN
          j # 0 /\ b[j].value.v = a[i].value.v

-----------------------------------------------------------------------------
(* pickle.dumps, protocol 4.  save(obj) walks the object and the pickler     *)
(* writes one opcode stream; the walk is modelled as the flat sequence of  *)
(* its steps (the reduce_ operators), the writing as one pass over them    *)
(* (pickle_dumps) that keeps the memo: the identities memoized so far.     *)
(* MEMOIZE gives an object the next memo index, and a later reference to   *)
(* the same object is written as BINGET of that index.                     *)

Op(name) == [op |-> name]

Anon == [anon |-> TRUE]

\* The memo key of a str or bytes object: its identity.
IdKey(obj) ==
    IF obj.id = Fresh THEN Anon
    ELSE IF obj = Interned(obj.v) THEN [s |-> obj.v]
    ELSE [id |-> obj.id]

\* Steps of the walk: write an opcode; save a memoizable object (its opcode
\* and its identity); save a class.
emit(name) == <<[t |-> "emit", op |-> Op(name)]>>

save_str(key, s) ==
    <<[t |-> "save", op |-> [op |-> "SHORT_BINUNICODE", str |-> s], key |-> key]>>

save_bytes(key, b) ==
    <<[t |-> "save", op |-> [op |-> "SHORT_BINBYTES", bytes |-> b], key |-> key]>>

save_bool(b) == emit(IF b THEN "NEWTRUE" ELSE "NEWFALSE")

save_global(cls) == <<[t |-> "global", cls |-> cls]>>

\* An attribute name of an instance __dict__ is an interned string: one object.
save_attr(name) == save_str(IdKey(Interned(<<name>>)), <<name>>)

\* object.__reduce_ex__(4): cls.__new__(cls) ...
save_newobj(cls) ==
    save_global(cls) \o emit("EMPTY_TUPLE")
    \o <<[t |-> "save", op |-> Op("NEWOBJ"), key |-> Anon]>>

\* ... and the instance __dict__ as the state: an EMPTY_DICT the n items are
\* then set into (SETITEM for one item, MARK ... SETITEMS for more).
save_dict(n, items) ==
    <<[t |-> "save", op |-> Op("EMPTY_DICT"), key |-> Anon]>>
    \o (IF n > 1 THEN emit("MARK") ELSE <<>>)
    \o items
    \o (IF n = 0 THEN <<>> ELSE IF n = 1 THEN emit("SETITEM") ELSE emit("SETITEMS"))

reduce_TreeObjectData(d) ==
    save_newobj("TreeObjectData")
    \o save_dict(3, save_attr("path") \o save_str(IdKey(d.path), d.path.v)
                    \o save_attr("object_type") \o save_global(d.object_type)
                    \o save_attr("is_removed") \o save_bool(d.is_removed))
    \o emit("BUILD")

RECURSIVE reduce_items(_, _)
reduce_items(items, i) ==
    IF i > Len(items) THEN <<>>
    ELSE reduce_TreeObjectData(items[i].key)
         \o save_bytes(IdKey(items[i].value), items[i].value.v)
         \o reduce_items(items, i + 1)

reduce_Tree(tree) ==
    save_newobj("Tree")
    \o save_dict(2, save_attr("children")
                    \o save_dict(Len(tree.children), reduce_items(tree.children, 1))
                    \o save_attr("is_removed") \o save_bool(tree.is_removed))
    \o emit("BUILD")

reduce_Blob(blob) ==
    save_newobj("Blob")
    \o save_dict(2, save_attr("content")
                    \o save_bytes(IdKey(blob.content), blob.content.v)
                    \o save_attr("is_removed") \o save_bool(blob.is_removed))
    \o emit("BUILD")

\* heap: the Trees a Commit's tree reference points into.
reduce_Commit(commit, heap) ==
    save_newobj("Commit")
    \o save_dict(3, save_attr("tree") \o reduce_Tree(heap[commit.tree])
                    \o save_attr("parent_commit_hash")
                    \o save_bytes(IdKey(commit.parent_commit_hash),
                                  commit.parent_commit_hash.v)
                    \o save_attr("message")
                    \o save_str(IdKey(commit.message), commit.message.v))
    \o emit("BUILD")

Emit(st, ops) == [out |-> st.out \o ops, memo |-> st.memo]

Memoize(st, key) ==
    [out |-> Append(st.out, Op("MEMOIZE")), memo |-> Append(st.memo, key)]

InMemo(st, key) == key # Anon /\ \E i \in 1..Len(st.memo) : st.memo[i] = key

MemoGet(st, key) ==
    Emit(st, <<[op |-> "BINGET",
                idx |-> (CHOOSE i \in 1..Len(st.memo) : st.memo[i] = key) - 1]>>)

\* save(obj): a memoized object is read back from the memo, any other is
\* written and memoized.
write_save(st, op, key) ==
    IF InMemo(st, key) THEN MemoGet(st, key) ELSE Memoize(Emit(st, <<op>>), key)

ModuleName == "modules.cvs_objects"

\* save_global: the module name, the qualified name, STACK_GLOBAL.
write_global(st, cls) ==
    IF InMemo(st, [cls |-> cls]) THEN MemoGet(st, [cls |-> cls])
    ELSE LET st1 == write_save(st, [op |-> "SHORT_BINUNICODE", str |-> <<ModuleName>>],
                               IdKey(Interned(<<ModuleName>>)))
             st2 == write_save(st1, [op |-> "SHORT_BINUNICODE", str |-> <<cls>>],
                               IdKey(Interned(<<cls>>)))
         IN  Memoize(Emit(st2, <<Op("STACK_GLOBAL")>>), [cls |-> cls])

write_step(st, step) ==
    CASE step.t = "emit" -> Emit(st, <<step.op>>)
      [] step.t = "save" -> write_save(st, step.op, step.key)
      [] step.t = "global" -> write_global(st, step.cls)

\* The test on st.memo has the pickler's state computed before the next step
\* is taken (TLC evaluates an argument only when it is used).
RECURSIVE write_steps(_, _, _)
write_steps(st, steps, i) ==
    IF Len(st.memo) >= 0 /\ i > Len(steps) THEN st
    ELSE write_steps(write_step(st, steps[i]), steps, i + 1)

pickle_dumps(steps) ==
    Append(write_steps([out |-> <<[op |-> "PROTO", n |-> 4]>>, memo |-> <<>>],
                       steps, 1).out,
           Op("STOP"))

Tree_serialize(tree) == pickle_dumps(reduce_Tree(tree))

Blob_serialize(blob) == pickle_dumps(reduce_Blob(blob))

Commit_serialize(commit, heap) == pickle_dumps(reduce_Commit(commit, heap))

-----------------------------------------------------------------------------
(* pickle.loads: the unpickler's stack machine.  A str or bytes read from   *)
(* the stream is a new object; its identity is the place of its opcode.    *)

Push(m, x) == [stack |-> Append(m.stack, x), memo |-> m.memo]

Top(m) == m.stack[Len(m.stack)]

Pop(m, n) == [stack |-> SubSeq(m.stack, 1, Len(m.stack) - n), memo |-> m.memo]

Peek(m, n) == m.stack[Len(m.stack) - n]

\* The topmost MARK of the stack.
MarkAt(m) ==
    CHOOSE i \in 1..Len(m.stack) :
        /\ m.stack[i].k = "mark"
        /\ \A j \in (i + 1)..Len(m.stack) : m.stack[j].k # "mark"

\* The items of a dict as the flat sequence key, value, key, value, ...
Flatten(items) ==
    [i \in 1..(2 * Len(items)) |->
        IF i % 2 = 1 THEN items[(i + 1) \div 2].key ELSE items[i \div 2].value]

\* Equality of two unpickled values: str, bytes and bool by value, a class by
\* identity.
LoadedValEq(x, y) ==
    /\ x.k = y.k
    /\ IF x.k = "class" THEN x.name = y.name ELSE x.v = y.v

\* Equality of two unpickled dict keys: an attribute name by value, a
\* TreeObjectData instance field by field (dataclass eq).
LoadedKeyEq(a, b) ==
    /\ a.k = b.k
    /\ IF a.k = "inst"
       THEN /\ a.cls = b.cls
            /\ Len(a.attrs) = Len(b.attrs)
            /\ \A i \in 1..Len(a.attrs) : LoadedValEq(a.attrs[i].value, b.attrs[i].value)
       ELSE a.v = b.v

\* d[k] = v, for each k, v of the flat sequence kv, on an unpickled dict.
RECURSIVE load_setitems(_, _, _)
load_setitems(d, kv, i) ==
    IF i > Len(kv) THEN d
    ELSE LET k == kv[i]
             v == kv[i + 1]
             at == {j \in 1..Len(d.items) : LoadedKeyEq(d.items[j].key, k)}
             items == IF at = {} THEN Append(d.items, [key |-> k, value |-> v])
                      ELSE [d.items EXCEPT ![CHOOSE j \in at : TRUE] =
                               [key |-> d.items[CHOOSE j \in at : TRUE].key, value |-> v]]
         IN  load_setitems([k |-> "dict", items |-> items], kv, i + 2)

load_op(m, o, pos) ==
    CASE o.op = "PROTO" -> m
      [] o.op = "SHORT_BINUNICODE" -> Push(m, [k |-> "str", id |-> <<pos>>, v |-> o.str])
      [] o.op = "SHORT_BINBYTES" -> Push(m, [k |-> "bytes", id |-> <<pos>>, v |-> o.bytes])
      [] o.op = "NEWTRUE" -> Push(m, [k |-> "bool", v |-> TRUE])
      [] o.op = "NEWFALSE" -> Push(m, [k |-> "bool", v |-> FALSE])
      [] o.op = "MEMOIZE" -> [stack |-> m.stack, memo |-> Append(m.memo, Top(m))]
      [] o.op = "BINGET" -> Push(m, m.memo[o.idx + 1])
      [] o.op = "STACK_GLOBAL" ->
            \* module name and qualified name popped, the class pushed
            Push(Pop(m, 2), [k |-> "class", name |-> Top(m).v[1]])
      [] o.op = "EMPTY_TUPLE" -> Push(m, [k |-> "tuple"])
      [] o.op = "NEWOBJ" ->
            \* cls.__new__(cls, *args): an instance with an empty __dict__
            Push(Pop(m, 2), [k |-> "inst", cls |-> Peek(m, 1).name, attrs |-> <<>>])
      [] o.op = "EMPTY_DICT" -> Push(m, [k |-> "dict", items |-> <<>>])
      [] o.op = "MARK" -> Push(m, [k |-> "mark"])
      [] o.op = "SETITEM" ->
            Push(Pop(m, 3), load_setitems(Peek(m, 2), <<Peek(m, 1), Top(m)>>, 1))
      [] o.op = "SETITEMS" ->
            LET at == MarkAt(m)
                kv == SubSeq(m.stack, at + 1, Len(m.stack))
            IN  Push(Pop(m, Len(m.stack) - at + 2), load_setitems(m.stack[at - 1], kv, 1))
      [] o.op = "BUILD" ->
            \* inst.__dict__ takes the items of the state dict
            LET state == Top(m)
                inst == Peek(m, 1)
            IN  Push(Pop(m, 2), [k |-> "inst", cls |-> inst.cls,
                                 attrs |-> load_setitems([k |-> "dict", items |-> inst.attrs],
                                                         Flatten(state.items), 1).items])

RECURSIVE load_run(_, _, _)
load_run(m, ops, i) ==
    \* STOP returns the top of the stack
    IF Len(m.stack) > 0 /\ ops[i].op = "STOP" THEN Top(m)
    ELSE load_run(load_op(m, ops[i], i), ops, i + 1)

pickle_loads(ops) == load_run([stack |-> <<>>, memo |-> <<>>], ops, 1)

\* The value of attribute name of an unpickled instance.
Attr(inst, name) ==
    inst.attrs[CHOOSE i \in 1..Len(inst.attrs) : inst.attrs[i].key.v = <<name>>].value

AsPyObj(x) == PyObj(x.id, x.v)

AsTreeObjectData(inst) ==
    TreeObjectData(AsPyObj(Attr(inst, "path")), Attr(inst, "object_type").name,
                   Attr(inst, "is_removed").v)

AsTree(inst) ==
    LET items == Attr(inst, "children").items IN
    [children |-> [i \in 1..Len(items) |->
                      [key |-> AsTreeObjectData(items[i].key),
                       value |-> AsPyObj(items[i].value)]],
     is_removed |-> Attr(inst, "is_removed").v]

AsBlob(inst) ==
    [content |-> AsPyObj(Attr(inst, "content")), is_removed |-> Attr(inst, "is_removed").v]

Tree_deserialize(content) == AsTree(pickle_loads(content))

Blob_deserialize(content) == AsBlob(pickle_loads(content))

\* The unpickled Commit owns a Tree of its own: it comes with a heap of one.
Commit_deserialize(content) ==
    LET inst == pickle_loads(content) IN
    [commit |-> [tree |-> 1,
                 parent_commit_hash |-> AsPyObj(Attr(inst, "parent_commit_hash")),
                 message |-> AsPyObj(Attr(inst, "message"))],
     heap |-> <<AsTree(Attr(inst, "tree"))>>]

-----------------------------------------------------------------------------
(* get_hash, __eq__, add_object, derive_commit *)

\* A variant of Blob.get_hash that C3 rules out: is_removed is hashed too.
Blob_get_hash_flagged(blob) ==
    sha1(Lit("blob #\\0") \o blob.content.v \o Lit(IF blob.is_removed THEN "1" ELSE "0"))

Blob_get_hash(blob) == sha1(Lit("blob #\\0") \o blob.content.v)

\* A variant of Tree.get_hash that C4 rules out: the digest of the children
\* as a set, whatever their order.
Tree_get_hash_canonical(tree) ==
    sha1(<<[children |-> {[path |-> tree.children[i].key.path.v,
                           object_type |-> tree.children[i].key.object_type,
                           is_removed |-> tree.children[i].key.is_removed,
                           hash |-> tree.children[i].value.v] : i \in 1..Len(tree.children)},
            is_removed |-> tree.is_removed]>>)

Tree_get_hash(tree) == sha1(Tree_serialize(tree))

\* A variant of Commit.get_hash that C9 rules out: the Tree is not hashed.
Commit_get_hash_treeless(commit, heap) ==
    sha1(Lit("commit #\\0") \o commit.parent_commit_hash.v)

Commit_get_hash(commit, heap) ==
    sha1(Lit("commit #\\0") \o Tree_get_hash(heap[commit.tree])
         \o commit.parent_commit_hash.v)

Tree_eq(s, t) == DictEq(s.children, t.children) /\ s.is_removed = t.is_removed

Commit_eq(a, ha, b, hb) ==
    /\ Tree_eq(ha[a.tree], hb[b.tree])
    /\ a.message.v = b.message.v
    /\ a.parent_commit_hash.v = b.parent_commit_hash.v

\* A variant of derive_commit that C1 rules out: the parent is not recorded.
Commit_derive_commit_unlinked(self, heap, tree, message) ==
    [tree |-> tree, parent_commit_hash |-> PyObj(Fresh, <<>>), message |-> message]

Tree_init(is_removed) == [children |-> <<>>, is_removed |-> is_removed]

Tree_add_object(tree, data, object_hash) ==
    [tree EXCEPT !.children = DictSetItem(tree.children, data, object_hash)]

Blob_init(content, is_removed) == [content |-> content, is_removed |-> is_removed]

Commit_init(tree, message) ==
    [tree |-> tree, parent_commit_hash |-> PyObj(Fresh, <<>>), message |-> message]

Commit_derive_commit(self, heap, tree, message) ==
    [Commit_init(tree, message) EXCEPT
        !.parent_commit_hash = PyObj(Fresh, Commit_get_hash(self, heap))]

-----------------------------------------------------------------------------
(* The objects the callers pass in.  Two str or bytes objects of one value  *)
(* and two identities are two objects; one object passed twice is shared.  *)

pa == PyObj(<<1>>, <<"a">>)

pa2 == PyObj(<<2>>, <<"a">>)

pb == PyObj(<<3>>, <<"b", "/">>)

\* The literal 'path' of a caller: the interned str, the object that is the
\* attribute name path.
ppath == Interned(<<"path">>)

ContentX == Lit("x")

ContentY == Lit("y")

Contents == {ContentX, ContentY}

HashX == Blob_get_hash(Blob_init(PyObj(Fresh, ContentX), FALSE))

HashY == Blob_get_hash(Blob_init(PyObj(Fresh, ContentY), FALSE))

h1 == PyObj(<<4>>, HashX)

h2 == PyObj(<<5>>, HashX)

h3 == PyObj(<<6>>, HashY)

Messages == {PyObj(Fresh, <<>>), PyObj(Fresh, <<"m">>)}

\* Commit histories: one key, set and reset on Trees made by Tree().
CommitKeys == {TreeObjectData(pa, "Blob", FALSE)}

CommitHashes == {h1, h3}

\* Pairs of Trees: two keys in either order, equal hashes shared or not.
PairKeys == {TreeObjectData(pa, "Blob", FALSE), TreeObjectData(pa, "Blob", TRUE)}

PairHashes == {h1, h2, h3}

\* Pickling: keys that share their path object or do not, of both types, and
\* a key whose path is an interned str.
PickleKeys == {TreeObjectData(pa, "Blob", FALSE), TreeObjectData(pa, "Blob", TRUE),
               TreeObjectData(pa2, "Tree", FALSE), TreeObjectData(ppath, "Blob", FALSE)}

PickleHashes == {h1, h2, h3}

\* add_object call sequences: keys that differ in each one of the three
\* fields, and two key objects that are equal.
AddKeys == {TreeObjectData(pa, "Blob", FALSE), TreeObjectData(pa2, "Blob", FALSE),
            TreeObjectData(pa, "Blob", TRUE), TreeObjectData(pa, "Tree", FALSE),
            TreeObjectData(pb, "Blob", FALSE)}

AddHashes == {h1, h3}

MaxTrees == 2

MaxCommits == 3

MaxChildren == 2

MaxCalls == 3

MaxHistory == 2

-----------------------------------------------------------------------------
(* The state.                                                              *)
(*   blobs    the Blobs constructed so far                                 *)
(*   trees    the heap of Trees; a Tree's index is its identity            *)
(*   commits  the Commits constructed so far, in order                     *)
(*   log      the add_object calls made so far, as [tree, data, hash]      *)
(*   derived  the last call, when it was derive_commit: parent and child   *)
(*   loaded   the last call, when it was deserialize(serialize(x)): x and  *)
(*            the object it returned                                       *)
(*   fs, stack, outcome, failed: the directory walk (below)                *)

None == [kind |-> "none"]

NoWalk ==
    /\ fs = <<>>
    /\ stack = <<>>
    /\ outcome = [status |-> "idle"]
    /\ failed = FALSE

InitHeap ==
    /\ blobs = {}
    /\ trees = <<>>
    /\ commits = <<>>
    /\ log = <<>>
    /\ derived = None
    /\ loaded = None

walkVars == <<fs, stack, outcome, failed>>

\* Blob(content, is_removed)
NewBlob(content, is_removed) ==
    /\ blobs' = blobs \cup {Blob_init(PyObj(Fresh, content), is_removed)}
    /\ derived' = None
    /\ loaded' = None
    /\ UNCHANGED <<trees, commits, log, walkVars>>

\* Tree(is_removed)
NewTree(is_removed) ==
    /\ Len(trees) < MaxTrees
    /\ trees' = Append(trees, Tree_init(is_removed))
    /\ derived' = None
    /\ loaded' = None
    /\ UNCHANGED <<blobs, commits, log, walkVars>>

\* trees[t].add_object(data, object_hash)
AddObject(t, data, object_hash) ==
    /\ t \in 1..Len(trees)
    /\ Len(Tree_add_object(trees[t], data, object_hash).children) <= MaxChildren
    /\ trees' = [trees EXCEPT ![t] = Tree_add_object(trees[t], data, object_hash)]
    /\ derived' = None
    /\ loaded' = None
    /\ UNCHANGED <<blobs, commits, log, walkVars>>

\* The same call, recorded in the log.
AddObjectLogged(t, data, object_hash) ==
    /\ t \in 1..Len(trees)
    /\ Len(log) < MaxCalls
    /\ trees' = [trees EXCEPT ![t] = Tree_add_object(trees[t], data, object_hash)]
    /\ log' = Append(log, [tree |-> t, data |-> data, hash |-> object_hash])
    /\ UNCHANGED <<blobs, commits, derived, loaded, walkVars>>

\* Commit(trees[t], message)
NewCommit(t, message) ==
    /\ t \in 1..Len(trees)
    /\ Len(commits) < MaxCommits
    /\ commits' = Append(commits, Commit_init(t, message))
    /\ derived' = None
    /\ loaded' = None
    /\ UNCHANGED <<blobs, trees, log, walkVars>>

\* commits[p].derive_commit(trees[t], message)
DeriveCommit(p, t, message) ==
    /\ p \in 1..Len(commits)
    /\ t \in 1..Len(trees)
    /\ Len(commits) < MaxCommits
    /\ commits' = Append(commits, Commit_derive_commit(commits[p], trees, t, message))
    /\ derived' = [kind |-> "derive", parent |-> p, child |-> Len(commits) + 1]
    /\ loaded' = None
    /\ UNCHANGED <<blobs, trees, log, walkVars>>

\* Blob.deserialize(b.serialize())
RoundTripBlob(b) ==
    /\ loaded' = [kind |-> "Blob", x |-> b, obj |-> Blob_deserialize(Blob_serialize(b))]
    /\ derived' = None
    /\ UNCHANGED <<blobs, trees, commits, log, walkVars>>

\* Tree.deserialize(trees[t].serialize())
RoundTripTree(t) ==
    /\ t \in 1..Len(trees)
    /\ loaded' = [kind |-> "Tree", x |-> trees[t],
                  obj |-> Tree_deserialize(Tree_serialize(trees[t]))]
    /\ derived' = None
    /\ UNCHANGED <<blobs, trees, commits, log, walkVars>>

\* Commit.deserialize(c.serialize()), c a Commit of a Tree of the heap
RoundTripCommit(c) ==
    /\ loaded' = [kind |-> "Commit", x |-> c,
                  obj |-> Commit_deserialize(Commit_serialize(c, trees))]
    /\ derived' = None
    /\ UNCHANGED <<blobs, trees, commits, log, walkVars>>

-----------------------------------------------------------------------------
(* Commit histories over two Trees made by Tree() *)

Init ==
    /\ blobs = {}
    /\ trees = <<Tree_init(FALSE), Tree_init(FALSE)>>
    /\ commits = <<>>
    /\ log = <<>>
    /\ derived = None
    /\ loaded = None
    /\ NoWalk

Next ==
    \/ \E t \in 1..Len(trees), d \in CommitKeys, h \in CommitHashes : AddObject(t, d, h)
    \/ \E t \in 1..Len(trees), m \in Messages : NewCommit(t, m)
    \/ \E c \in 1..Len(commits), t \in 1..Len(trees), m \in Messages : DeriveCommit(c, t, m)

Spec == Init /\ [][Next]_vars

(* Short histories, for what a mutation of a Tree does to the Commits on it *)

NextMutate ==
    \/ \E t \in 1..Len(trees), d \in CommitKeys, h \in CommitHashes : AddObject(t, d, h)
    \/ \E t \in 1..Len(trees), m \in Messages :
          Len(commits) < MaxHistory /\ NewCommit(t, m)
    \/ \E c \in 1..Len(commits), t \in 1..Len(trees), m \in Messages :
          Len(commits) < MaxHistory /\ DeriveCommit(c, t, m)

SpecMutate == Init /\ [][NextMutate]_vars

(* Pairs of Trees *)

InitPair ==
    /\ blobs = {}
    /\ trees = <<>>
    /\ commits = <<>>
    /\ log = <<>>
    /\ derived = None
    /\ loaded = None
    /\ fs = <<>>
    /\ stack = <<>>
    /\ outcome = [status |-> "idle"]
    /\ failed = FALSE

NextPair ==
    \/ \E r \in BOOLEAN : NewTree(r)
    \/ \E t \in 1..Len(trees), d \in PairKeys, h \in PairHashes : AddObject(t, d, h)

SpecPair == InitPair /\ [][NextPair]_vars

(* Pickling: one Tree, and the Blobs and Commits made for the call *)

InitPickle ==
    /\ \E r \in BOOLEAN : trees = <<Tree_init(r)>>
    /\ blobs = {}
    /\ commits = <<>>
    /\ log = <<>>
    /\ derived = None
    /\ loaded = None
    /\ NoWalk

NextPickle ==
    \/ \E d \in PickleKeys, h \in PickleHashes : AddObject(1, d, h)
    \/ \E c \in Contents, r \in BOOLEAN : RoundTripBlob(Blob_init(PyObj(Fresh, c), r))
    \/ RoundTripTree(1)
    \/ \E m \in Messages : RoundTripCommit(Commit_init(1, m))
    \/ \E m0 \in Messages, m \in Messages :
          RoundTripCommit(Commit_derive_commit(Commit_init(1, m0), trees, 1, m))

SpecPickle == InitPickle /\ [][NextPickle]_vars

(* add_object call sequences on one Tree, beside the Blobs *)

InitAdd ==
    /\ \E r \in BOOLEAN : trees = <<Tree_init(r)>>
    /\ blobs = {}
    /\ commits = <<>>
    /\ log = <<>>
    /\ derived = None
    /\ loaded = None
    /\ NoWalk

NextAdd ==
    \/ \E c \in Contents, r \in BOOLEAN : NewBlob(c, r)
    \/ \E d \in AddKeys, h \in AddHashes : AddObjectLogged(1, d, h)

SpecAdd == InitAdd /\ [][NextAdd]_vars

-----------------------------------------------------------------------------
(* Tree.initialize_from_directory.  The file system is a directory: the     *)
(* sequence, in os.listdir order, of its entries, a file [name, kind, data] *)
(* or a directory [name, kind, entries].  The recursion is a stack of      *)
(* frames [directory, listing, i, tree]: the argument, the os.listdir      *)
(* result, the place of the for loop in it and the local tree.  os.listdir *)
(* and open may raise at any call.                                         *)
(*   fs       the directory argument and the entries under it              *)
(*   stack    the frames of the calls in progress, the outermost first     *)
(*   outcome  idle, running, returned (with the Tree) or raised            *)
(*   failed   whether a file-system call has raised                        *)

FileNames == {"a.txt", "b"}

DirNames == {"sub"}

RootDirs == {<<"d">>, <<"d", "/">>}

MaxDepth == 1

Sep == "/"

\* A variant of os.path.join that C6 rules out: plain concatenation.
os_path_join_concatenated(a, b) == a \o b

\* posixpath.join(a, b)
os_path_join(a, b) ==
    IF b # <<>> /\ b[1] = Sep THEN b
    ELSE IF a = <<>> \/ a[Len(a)] = Sep THEN a \o b
    ELSE a \o <<Sep>> \o b

Files == {[name |-> n, kind |-> "file", data |-> c] : n \in FileNames, c \in Contents}

\* The sequences of at most n of the entries, their names distinct.
RECURSIVE DistinctNames(_, _)
DistinctNames(entries, n) ==
    IF n = 0 THEN {<<>>}
    ELSE LET shorter == DistinctNames(entries, n - 1) IN
         shorter \cup
         UNION {{Append(l, e) : e \in {x \in entries :
                                          \A i \in 1..Len(l) : l[i].name # x.name}} :
                l \in {x \in shorter : Len(x) = n - 1}}

MaxEntries == Cardinality(FileNames \cup DirNames)

RECURSIVE Listings(_)
Listings(depth) ==
    IF depth = 0 THEN DistinctNames(Files, MaxEntries)
    ELSE DistinctNames(Files \cup {[name |-> n, kind |-> "dir", entries |-> l] :
                                       n \in DirNames, l \in Listings(depth - 1)},
                       MaxEntries)

Frame(directory, listing) ==
    [directory |-> directory, listing |-> listing, i |-> 1, tree |-> Tree_init(FALSE)]

TopFrame == stack[Len(stack)]

Entry == TopFrame.listing[TopFrame.i]

\* full_path = os.path.join(directory, file)
FullPath == os_path_join(TopFrame.directory, <<Entry.name>>)

InLoop == stack # <<>> /\ TopFrame.i <= Len(TopFrame.listing)

\* A variant of the failure that C8 rules out: the exception is caught and
\* the tree built so far is returned.
Propagate_swallowed(frames) == [status |-> "returned", tree |-> frames[1].tree]

\* An exception nothing catches: every frame is left, and with it its tree.
Propagate(frames) == [status |-> "raised", discarded |-> Len(frames[1].tree.children)]

\* tree.add_object(file_data, obj.get_hash()), and the loop goes on
Added(frame, file_data, object_hash) ==
    [frame EXCEPT !.tree = Tree_add_object(frame.tree, file_data, PyObj(Fresh, object_hash)),
                  !.i = frame.i + 1]

InitDir ==
    /\ InitHeap
    /\ \E d \in RootDirs, l \in Listings(MaxDepth) : fs = [directory |-> d, entries |-> l]
    /\ stack = <<>>
    /\ outcome = [status |-> "idle"]
    /\ failed = FALSE

heapVars == <<blobs, trees, commits, log, derived, loaded>>

\* Tree.initialize_from_directory(directory): tree = Tree(), os.listdir(directory)
Call ==
    /\ outcome.status = "idle"
    /\ stack' = <<Frame(fs.directory, fs.entries)>>
    /\ outcome' = [status |-> "running"]
    /\ UNCHANGED <<fs, failed, heapVars>>

\* os.listdir(directory) raises
CallFail ==
    /\ outcome.status = "idle"
    /\ outcome' = [status |-> "raised", discarded |-> 0]
    /\ failed' = TRUE
    /\ UNCHANGED <<fs, stack, heapVars>>

\* not os.path.isdir(full_path): the file is read into a Blob
VisitFile ==
    /\ InLoop
    /\ Entry.kind = "file"
    /\ stack' = [stack EXCEPT ![Len(stack)] =
                    Added(TopFrame, TreeObjectData(PyObj(Fresh, FullPath), "Blob", FALSE),
                          Blob_get_hash(Blob_init(PyObj(Fresh, Entry.data), FALSE)))]
    /\ UNCHANGED <<fs, outcome, failed, heapVars>>

\* open(full_path, 'rb') or f.read() raises
VisitFileFail ==
    /\ InLoop
    /\ Entry.kind = "file"
    /\ stack' = <<>>
    /\ outcome' = Propagate(stack)
    /\ failed' = TRUE
    /\ UNCHANGED <<fs, heapVars>>

\* os.path.isdir(full_path): the recursive call on os.path.join(full_path, '')
VisitDir ==
    /\ InLoop
    /\ Entry.kind = "dir"
    /\ stack' = Append(stack, Frame(os_path_join(FullPath, <<>>), Entry.entries))
    /\ UNCHANGED <<fs, outcome, failed, heapVars>>

\* os.listdir raises in the recursive call
VisitDirFail ==
    /\ InLoop
    /\ Entry.kind = "dir"
    /\ stack' = <<>>
    /\ outcome' = Propagate(stack)
    /\ failed' = TRUE
    /\ UNCHANGED <<fs, heapVars>>

\* return tree: to the caller, or to the frame below, which adds its hash
\* under file_data = TreeObjectData(full_path, Tree)
Return ==
    /\ stack # <<>>
    /\ TopFrame.i > Len(TopFrame.listing)
    /\ IF Len(stack) = 1
       THEN /\ stack' = <<>>
            /\ outcome' = [status |-> "returned", tree |-> TopFrame.tree]
       ELSE /\ stack' = [SubSeq(stack, 1, Len(stack) - 1) EXCEPT ![Len(stack) - 1] =
                            Added(stack[Len(stack) - 1],
                                  TreeObjectData(PyObj(Fresh, TopFrame.directory), "Tree", FALSE),
                                  Tree_get_hash(TopFrame.tree))]
            /\ UNCHANGED outcome
    /\ UNCHANGED <<fs, failed, heapVars>>

NextDir ==
    \/ Call
    \/ CallFail
    \/ VisitFile
    \/ VisitFileFail
    \/ VisitDir
    \/ VisitDirFail
    \/ Return

SpecDir == InitDir /\ [][NextDir]_vars

-----------------------------------------------------------------------------
(* Properties *)

CommitHash(c) == Commit_get_hash(commits[c], trees)

\* C1: when the last call was c = p.derive_commit(t, m), c.parent_commit_hash
\* is p.get_hash() as of the call, and c.get_hash() differs from p.get_hash()
\* whenever t is not p.tree or m is not p.message.
C1_DeriveCommitChains ==
    derived.kind = "derive" =>
        LET p == commits[derived.parent]
            c == commits[derived.child]
        IN  /\ c.parent_commit_hash.v = CommitHash(derived.parent)
            /\ (c.tree # p.tree \/ c.message.v # p.message.v)
                  => CommitHash(derived.child) # CommitHash(derived.parent)

\* C1 witness: a Commit that has a parent itself derives a child on another
\* Tree, of other children, with another message.
C1_Witness ==
    /\ derived.kind = "derive"
    /\ commits[derived.parent].parent_commit_hash.v # <<>>
    /\ commits[derived.child].tree # commits[derived.parent].tree
    /\ ~Tree_eq(trees[commits[derived.child].tree], trees[commits[derived.parent].tree])
    /\ commits[derived.child].message.v # commits[derived.parent].message.v

\* The items of two dicts are the same, in the same order, by value.
SameItems(a, b) ==
    /\ Len(a) = Len(b)
    /\ \A i \in 1..Len(a) :
          /\ a[i].key.path.v = b[i].key.path.v
          /\ a[i].key.object_type = b[i].key.object_type
          /\ a[i].key.is_removed = b[i].key.is_removed
          /\ a[i].value.v = b[i].value.v

SameTree(s, t) == SameItems(s.children, t.children) /\ s.is_removed = t.is_removed

\* C2: when the last call was deserialize(serialize(x)), for x a Blob, a Tree
\* or a Commit, the object returned has the fields of x (content and
\* is_removed; children in their order and is_removed; tree,
\* parent_commit_hash and message) and the get_hash() of x.
C2_RoundTrip ==
    /\ loaded.kind = "Blob" =>
          /\ loaded.obj.content.v = loaded.x.content.v
          /\ loaded.obj.is_removed = loaded.x.is_removed
          /\ Blob_get_hash(loaded.obj) = Blob_get_hash(loaded.x)
    /\ loaded.kind = "Tree" =>
          /\ SameTree(loaded.obj, loaded.x)
          /\ Tree_get_hash(loaded.obj) = Tree_get_hash(loaded.x)
    /\ loaded.kind = "Commit" =>
          /\ SameTree(loaded.obj.heap[loaded.obj.commit.tree], trees[loaded.x.tree])
          /\ loaded.obj.commit.parent_commit_hash.v = loaded.x.parent_commit_hash.v
          /\ loaded.obj.commit.message.v = loaded.x.message.v
          /\ Commit_get_hash(loaded.obj.commit, loaded.obj.heap)
                = Commit_get_hash(loaded.x, trees)

\* C2 witness: the round trip of a derived Commit, with a message, of a removed
\* Tree of two children that share their path object and their hash object.
C2_Witness ==
    /\ loaded.kind = "Commit"
    /\ loaded.x.parent_commit_hash.v # <<>>
    /\ loaded.x.message.v # <<>>
    /\ trees[1].is_removed
    /\ Len(trees[1].children) = 2
    /\ trees[1].children[1].key.path.id = trees[1].children[2].key.path.id
    /\ trees[1].children[1].value.id = trees[1].children[2].value.id

IsTombstone(data) == data.object_type = "Blob" /\ data.is_removed

\* C3: two Blobs have the same get_hash() exactly when they have the same
\* content, whatever their is_removed flags; a Blob hashes as the Blob of its
\* content alone also once a removed Blob entry is in the Tree; and
\* the add_object of such an entry leaves every Blob, and so its get_hash(),
\* as it was.
C3_BlobHashOfContentOnly ==
    /\ [](/\ \A b1, b2 \in blobs :
                (b1.content.v = b2.content.v) <=> (Blob_get_hash(b1) = Blob_get_hash(b2))
          /\ (\E i \in 1..Len(trees[1].children) : IsTombstone(trees[1].children[i].key))
                => \A b \in blobs :
                      Blob_get_hash(b) = Blob_get_hash(Blob_init(b.content, FALSE)))
    /\ [][(Len(log') > Len(log) /\ IsTombstone(log'[Len(log')].data))
             => \A b \in blobs :
                   \E b2 \in blobs' : b2 = b /\ Blob_get_hash(b2) = Blob_get_hash(b)]_vars

\* C3 witness: a removed and a kept Blob of one content, a Blob of another
\* content, and a removed Blob entry added to the Tree last.
C3_Witness ==
    /\ \E b1, b2, b3 \in blobs :
          /\ b1.content.v = b2.content.v
          /\ b1.is_removed
          /\ ~b2.is_removed
          /\ b3.content.v # b1.content.v
    /\ log # <<>>
    /\ IsTombstone(log[Len(log)].data)

SameItem(x, y) ==
    /\ x.key.path.v = y.key.path.v
    /\ x.key.object_type = y.key.object_type
    /\ x.key.is_removed = y.key.is_removed
    /\ x.value.v = y.value.v

\* Trees s and t hold the same two (data, hash) pairs, added in reversed order.
Reversed(s, t) ==
    /\ s.is_removed = t.is_removed
    /\ Len(s.children) = 2
    /\ Len(t.children) = 2
    /\ SameItem(s.children[1], t.children[2])
    /\ SameItem(s.children[2], t.children[1])

\* C4: two Trees of the same is_removed flag that were given the same two
\* (data, hash) pairs in reversed order have different get_hash() values.
C4_OrderSensitiveHash ==
    \A s, t \in 1..Len(trees) :
        Reversed(trees[s], trees[t]) => Tree_get_hash(trees[s]) # Tree_get_hash(trees[t])

\* C4 witness: two such Trees.
C4_Witness == \E s, t \in 1..Len(trees) : Reversed(trees[s], trees[t])

\* C5: two Commits of one get_hash() have the same tree, the same
\* parent_commit_hash and the same message (a == b).
C5_HashEqualityIsContentEquality ==
    \A a, b \in 1..Len(commits) :
        CommitHash(a) = CommitHash(b) => Commit_eq(commits[a], trees, commits[b], trees)

\* The path of the entry name of directory dir: one separator between them.
PathOf(dir, name) == (IF dir[Len(dir)] = Sep THEN dir ELSE Append(dir, Sep)) \o <<name>>

\* The Tree the claim describes for the directory dir of the given entries.
RECURSIVE DescribedTree(_, _)
DescribedTree(dir, entries) ==
    [children |->
        [i \in 1..Len(entries) |->
            IF entries[i].kind = "file"
            THEN [path |-> PathOf(dir, entries[i].name), object_type |-> "Blob",
                  hash |-> Blob_get_hash(Blob_init(PyObj(Fresh, entries[i].data), FALSE))]
            ELSE [path |-> Append(PathOf(dir, entries[i].name), Sep), object_type |-> "Tree",
                  hash |-> IF entries[i].entries = <<>> THEN Tree_get_hash(Tree_init(FALSE))
                           ELSE Tree_get_hash(
                                   [children |->
                                       [j \in 1..Len(entries[i].entries) |->
                                           LET e == DescribedTree(
                                                       Append(PathOf(dir, entries[i].name), Sep),
                                                       entries[i].entries).children[j]
                                           IN  [key |-> TreeObjectData(PyObj(Fresh, e.path),
                                                                       e.object_type, FALSE),
                                                value |-> PyObj(Fresh, e.hash)]],
                                    is_removed |-> FALSE])]],
     is_removed |-> FALSE]

\* C6: the Tree initialize_from_directory returns has one child per entry of
\* the directory, in listing order, and no other: a file f as
\* TreeObjectData(path of f, Blob, not removed) with Blob(bytes of f).get_hash(),
\* a subdirectory s as TreeObjectData(path of s ending in the separator, Tree,
\* not removed) with initialize_from_directory(s).get_hash(), which for an
\* empty s is Tree().get_hash().
C6_DirectoryMaterialization ==
    outcome.status = "returned" =>
        LET want == DescribedTree(fs.directory, fs.entries).children
            got == outcome.tree.children
        IN  /\ Len(got) = Len(fs.entries)
            /\ ~outcome.tree.is_removed
            /\ \A i \in 1..Len(got) :
                  /\ got[i].key.path.v = want[i].path
                  /\ got[i].key.object_type = want[i].object_type
                  /\ ~got[i].key.is_removed
                  /\ got[i].value.v = want[i].hash

\* C6 witness: the walk returned for a directory of two files, of one content,
\* around an empty subdirectory.
C6_Witness ==
    /\ outcome.status = "returned"
    /\ Len(fs.entries) = 3
    /\ fs.entries[1].kind = "file"
    /\ fs.entries[2].kind = "dir"
    /\ fs.entries[2].entries = <<>>
    /\ fs.entries[3].kind = "file"
    /\ fs.entries[3].data = fs.entries[1].data

SameKey(a, b) ==
    /\ a.path.v = b.path.v
    /\ a.object_type = b.object_type
    /\ a.is_removed = b.is_removed

\* The first and the last add_object call of the log for the key data.
FirstCall(data) == CHOOSE j \in 1..Len(log) :
    SameKey(log[j].data, data) /\ \A k \in 1..(j - 1) : ~SameKey(log[k].data, data)

LastCall(data) == CHOOSE j \in 1..Len(log) :
    SameKey(log[j].data, data) /\ \A k \in (j + 1)..Len(log) : ~SameKey(log[k].data, data)

\* C7: after the add_object calls of the log, children has one entry for each
\* key (path, object_type, is_removed) of the calls and no other, keys that
\* differ in a field being different keys; each maps to the hash of the last
\* call for its key; the entries are in the order of the first calls for their
\* keys.
C7_AddObjectMapping ==
    LET children == trees[1].children IN
    /\ \A j \in 1..Len(log) : \E i \in 1..Len(children) : SameKey(children[i].key, log[j].data)
    /\ \A i \in 1..Len(children) : \E j \in 1..Len(log) : SameKey(children[i].key, log[j].data)
    /\ \A i, k \in 1..Len(children) : i # k => ~SameKey(children[i].key, children[k].key)
    /\ \A i \in 1..Len(children) : children[i].value = log[LastCall(children[i].key)].hash
    /\ \A i, k \in 1..Len(children) :
          i < k => FirstCall(children[i].key) < FirstCall(children[k].key)

\* C7 witness: a key is added, then another that differs in one field, then
\* the first again with another hash.
C7_Witness ==
    /\ Len(log) = 3
    /\ SameKey(log[1].data, log[3].data)
    /\ log[2].data.path.v = log[1].data.path.v
    /\ log[2].data.object_type = log[1].data.object_type
    /\ log[2].data.is_removed # log[1].data.is_removed
    /\ log[3].hash.v # log[1].hash.v

\* C8: once os.listdir or a read has failed, at whatever depth and after
\* however many entries, the call has raised and no Tree is its result; a
\* Tree is returned only by a walk in which nothing failed.
C8_FailurePropagates ==
    /\ failed => (outcome.status = "raised" /\ stack = <<>>)
    /\ outcome.status = "returned" => ~failed

\* C8 witness: a failure in a subdirectory, after an entry of the directory
\* itself had been added.
C8_Witness == failed /\ outcome.status = "raised" /\ outcome.discarded > 0

\* The add_object of the step added a key to the Tree, or changed the hash
\* of one of its keys.
Changed(old, new) ==
    \/ Len(new.children) > Len(old.children)
    \/ \E i \in 1..Len(old.children) : new.children[i].value.v # old.children[i].value.v

\* C9: over a step that leaves a Commit's Tree as it is, the Commit's
\* get_hash() is the same; over an add_object that adds a key to that Tree or
\* changes the hash of one, it differs, and a Commit whose
\* parent_commit_hash was that get_hash() keeps it, so that it is no longer
\* the parent's get_hash().
C9_HashRecomputed ==
    [][\A c \in 1..Len(commits) :
          LET t == commits[c].tree
              before == Commit_get_hash(commits[c], trees)
              after == Commit_get_hash(commits'[c], trees')
          IN  /\ trees'[t] = trees[t] => after = before
              /\ Changed(trees[t], trees'[t]) =>
                    /\ after # before
                    /\ \A d \in 1..Len(commits) :
                          commits[d].parent_commit_hash.v = before =>
                              /\ commits'[d].parent_commit_hash.v = before
                              /\ commits'[d].parent_commit_hash.v # after]_vars

\* C9 witness: a Commit whose parent_commit_hash is the get_hash() of no
\* Commit any more.
C9_Witness ==
    \E d \in 1..Len(commits) :
        /\ commits[d].parent_commit_hash.v # <<>>
        /\ \A c \in 1..Len(commits) : CommitHash(c) # commits[d].parent_commit_hash.v

\* C10: two Trees that are == have the same get_hash(), and two Commits
\* (here Commit(s, m) and Commit(t, m) of two Trees of the heap) that are ==
\* have the same get_hash().
C10_EqualityImpliesHashEquality ==
    /\ \A s, t \in 1..Len(trees) :
          Tree_eq(trees[s], trees[t]) => Tree_get_hash(trees[s]) = Tree_get_hash(trees[t])
    /\ \A s, t \in 1..Len(trees), m \in Messages :
          Commit_eq(Commit_init(s, m), trees, Commit_init(t, m), trees)
             => Commit_get_hash(Commit_init(s, m), trees) = Commit_get_hash(Commit_init(t, m), trees)

====
